---------------------------- MODULE Spec2Model ----------------------------
(***************************************************************************)
(* statsd-aggregator (src/statsd-aggregator.c): the aggregation slot       *)
(* table, the packer and its ring of egress buffers, the send step with    *)
(* its round-robin host selector, the host set with its reconciliation,    *)
(* the health probes and the resolver thread.                              *)
(*                                                                         *)
(* Bytes are one-character strings and buffers are sequences of bytes.     *)
(* A C double is an exact rational [n, d] (d = 0: an infinity or a NaN);   *)
(* the inputs are drawn from tokens on which the exact sum and the IEEE    *)
(* sum print the same fifteen digits.                                      *)
(***************************************************************************)
EXTENDS Integers, Sequences, FiniteSets, TLC

(***************************************************************************)
(* Program constants.                                                      *)
(***************************************************************************)
DOWNSTREAM_BUF_SIZE == 1450
DOWNSTREAM_BUF_NUM == 16
DATA_BUF_SIZE == 4096
NUM_OF_SLOTS == DOWNSTREAM_BUF_SIZE \div 7
MAX_COUNTER_LENGTH == 18
MAX_DOWNSTREAM_NUM == 32
MAX_PACKETS_PER_SOCKET == 1000

TYPE_UNKNOWN == "unknown"
TYPE_COUNTER == "counter"
TYPE_OTHER == "other"

(***************************************************************************)
(* Helpers on sequences of bytes.                                          *)
(***************************************************************************)
Min(S) == CHOOSE x \in S : \A y \in S : x <= y

Max(S) == CHOOSE x \in S : \A y \in S : x >= y

Abs(x) == IF x < 0 THEN -x ELSE x

Rep(ch, n) == [i \in 1..n |-> ch]

\* memchr(buf + from - 1, ch, n): the index of the first ch in
\* buf[from .. from+n-1], 0 (NULL) when there is none.
Memchr(buf, from, ch, n) ==
    LET S == {i \in from..(from + n - 1) : i <= Len(buf) /\ buf[i] = ch}
    IN IF S = {} THEN 0 ELSE Min(S)

DigitChars == <<"0", "1", "2", "3", "4", "5", "6", "7", "8", "9">>

IsDigit(ch) == \E k \in 1..10 : DigitChars[k] = ch

DigitVal(ch) == (CHOOSE k \in 1..10 : DigitChars[k] = ch) - 1

IsSpace(ch) == ch \in {" ", "\n", "\t", "\r"}

(***************************************************************************)
(* Doubles as exact rationals.                                             *)
(***************************************************************************)
RECURSIVE Gcd(_, _)
Gcd(a, b) == IF b = 0 THEN a ELSE Gcd(b, a % b)

Sign(x) == IF x > 0 THEN 1 ELSE IF x < 0 THEN -1 ELSE 0

\* [n, d] in lowest terms with d >= 0; d = 0 is +inf (n = 1), -inf (n = -1)
\* or NaN (n = 0).
Rat(n, d) ==
    IF d = 0 THEN [n |-> Sign(n), d |-> 0]
    ELSE LET g == Gcd(Abs(n), Abs(d))
             s == IF d < 0 THEN -1 ELSE 1
         IN [n |-> s * (n \div g), d |-> s * (d \div g)]

Zero == [n |-> 0, d |-> 1]

One == [n |-> 1, d |-> 1]

IsNaN(x) == x.d = 0 /\ x.n = 0

IsInf(x) == x.d = 0 /\ x.n # 0

\* a + b on doubles
RatAdd(a, b) ==
    IF IsNaN(a) \/ IsNaN(b) THEN [n |-> 0, d |-> 0]
    ELSE IF IsInf(a) /\ IsInf(b) THEN (IF a.n = b.n THEN a ELSE [n |-> 0, d |-> 0])
    ELSE IF IsInf(a) THEN a
    ELSE IF IsInf(b) THEN b
    ELSE Rat(a.n * b.d + b.n * a.d, a.d * b.d)

\* a / b on doubles: x / 0 is an infinity, 0 / 0 a NaN
RatDiv(a, b) ==
    IF IsNaN(a) \/ IsNaN(b) THEN [n |-> 0, d |-> 0]
    ELSE IF IsInf(a) /\ IsInf(b) THEN [n |-> 0, d |-> 0]
    ELSE IF IsInf(a) THEN [n |-> a.n * (IF b.n < 0 THEN -1 ELSE 1), d |-> 0]
    ELSE IF IsInf(b) THEN Zero
    ELSE Rat(a.n * b.d, a.d * b.n)

(***************************************************************************)
(* strtod(3) on the decimal forms the inputs use: optional white space,    *)
(* an optional sign, digits with an optional fraction.  No input puts an   *)
(* exponent, a hexadecimal prefix, "inf" or "nan" after a number.          *)
(* The result is the value and endptr; with no digit at all no conversion  *)
(* is performed: the value is zero and endptr is nptr.                     *)
(***************************************************************************)
ByteAt(buf, i) == IF i >= 1 /\ i <= Len(buf) THEN buf[i] ELSE "\\0"

RECURSIVE SkipSpace(_, _)
SkipSpace(buf, p) == IF IsSpace(ByteAt(buf, p)) THEN SkipSpace(buf, p + 1) ELSE p

RECURSIVE DigitsEnd(_, _)
DigitsEnd(buf, p) == IF IsDigit(ByteAt(buf, p)) THEN DigitsEnd(buf, p + 1) ELSE p

\* the number written by the digits buf[from .. to-1]
RECURSIVE DigitsVal(_, _, _)
DigitsVal(buf, from, to) ==
    IF to <= from THEN 0
    ELSE 10 * DigitsVal(buf, from, to - 1) + DigitVal(buf[to - 1])

RECURSIVE Pow10(_)
Pow10(k) == IF k = 0 THEN 1 ELSE 10 * Pow10(k - 1)

Strtod(buf, nptr) ==
    LET p0 == SkipSpace(buf, nptr)
        neg == ByteAt(buf, p0) = "-"
        p1 == IF ByteAt(buf, p0) \in {"-", "+"} THEN p0 + 1 ELSE p0
        p2 == DigitsEnd(buf, p1)
        hasDot == ByteAt(buf, p2) = "."
        p3 == IF hasDot THEN DigitsEnd(buf, p2 + 1) ELSE p2
        nInt == p2 - p1
        nFrac == IF hasDot THEN p3 - (p2 + 1) ELSE 0
        mag == DigitsVal(buf, p1, p2) * Pow10(nFrac)
               + (IF hasDot THEN DigitsVal(buf, p2 + 1, p3) ELSE 0)
    IN IF nInt + nFrac = 0
       THEN [val |-> Zero, endptr |-> nptr]
       ELSE [val |-> Rat(IF neg THEN -mag ELSE mag, Pow10(nFrac)),
             endptr |-> IF hasDot THEN p3 ELSE p2]

(***************************************************************************)
(* sprintf("%.15g", x): fifteen significant digits, rounded to nearest,    *)
(* trailing zeros removed, the exponent form when the decimal exponent is  *)
(* below -4 or at least 15.                                                *)
(***************************************************************************)
PRECISION == 15

RECURSIVE NatDigits(_)
NatDigits(k) ==
    IF k < 10 THEN <<DigitChars[k + 1]>>
    ELSE Append(NatDigits(k \div 10), DigitChars[(k % 10) + 1])

\* the next cnt digits of r/d (0 <= r < d) after the decimal point, and the
\* remainder left after them
RECURSIVE FracDigits(_, _, _)
FracDigits(r, d, cnt) ==
    IF cnt = 0 THEN [ds |-> <<>>, r |-> r]
    ELSE LET rest == FracDigits((r * 10) % d, d, cnt - 1)
         IN [ds |-> <<DigitChars[((r * 10) \div d) + 1]>> \o rest.ds, r |-> rest.r]

\* the number of zeros between the decimal point and the first nonzero digit
\* of r/d, 0 < r < d
RECURSIVE LeadingZeros(_, _)
LeadingZeros(r, d) == IF r * 10 >= d THEN 0 ELSE 1 + LeadingZeros(r * 10, d)

RECURSIVE ScaleUp(_, _, _)
ScaleUp(r, d, k) == IF k = 0 THEN r ELSE ScaleUp((r * 10) % d, d, k - 1)

\* a digit string plus one in its last place; the carry out of the first
\* digit gives one more digit
RECURSIVE Increment(_)
Increment(ds) ==
    IF ds = <<>> THEN <<"1">>
    ELSE LET last == ds[Len(ds)]
             init == SubSeq(ds, 1, Len(ds) - 1)
         IN IF last = "9" THEN Append(Increment(init), "0")
            ELSE Append(init, DigitChars[DigitVal(last) + 2])

RECURSIVE StripZeros(_)
StripZeros(ds) ==
    IF ds # <<>> /\ ds[Len(ds)] = "0" THEN StripZeros(SubSeq(ds, 1, Len(ds) - 1))
    ELSE ds

\* the significant digits of a/d (a, d > 0) rounded to PRECISION places
\* and the decimal exponent of the first of them
SigDigits(a, d) ==
    LET ip == a \div d
        r0 == a % d
        intDs == IF ip = 0 THEN <<>> ELSE NatDigits(ip)
        z == IF ip = 0 THEN LeadingZeros(r0, d) ELSE 0
        r1 == IF ip = 0 THEN ScaleUp(r0, d, z) ELSE r0
        fr == FracDigits(r1, d, PRECISION - Len(intDs))
        raw == intDs \o fr.ds
        exp == IF ip = 0 THEN -(z + 1) ELSE Len(intDs) - 1
        up == 2 * fr.r > d \/ (2 * fr.r = d /\ DigitVal(raw[Len(raw)]) % 2 = 1)
        inc == IF up THEN Increment(raw) ELSE raw
    IN IF Len(inc) > PRECISION
       THEN [ds |-> SubSeq(inc, 1, PRECISION), exp |-> exp + 1]
       ELSE [ds |-> inc, exp |-> exp]

Fmt15g(x) ==
    IF IsNaN(x) THEN <<"-", "n", "a", "n">>
    ELSE IF IsInf(x) THEN (IF x.n < 0 THEN <<"-">> ELSE <<>>) \o <<"i", "n", "f">>
    ELSE IF x.n = 0 THEN <<"0">>
    ELSE
      LET sd == SigDigits(Abs(x.n), x.d)
          X == sd.exp
          sgn == IF x.n < 0 THEN <<"-">> ELSE <<>>
          ds == sd.ds
          point(fs) == IF fs = <<>> THEN <<>> ELSE <<".">> \o fs
      IN IF X < -4 \/ X >= PRECISION
         THEN sgn \o <<ds[1]>> \o point(StripZeros(SubSeq(ds, 2, Len(ds))))
              \o <<"e", IF X < 0 THEN "-" ELSE "+">>
              \o (IF Abs(X) < 10 THEN <<"0">> ELSE <<>>) \o NatDigits(Abs(X))
         ELSE IF X >= 0
         THEN sgn \o SubSeq(ds, 1, X + 1)
              \o point(StripZeros(SubSeq(ds, X + 2, Len(ds))))
         ELSE sgn \o <<"0", ".">> \o Rep("0", -X - 1) \o StripZeros(ds)

(***************************************************************************)
(* State.                                                                  *)
(*                                                                         *)
(* downstream is struct downstream_s.  slots holds the used slots only     *)
(* (slots_used is its length, and slot i of the code is slots[i + 1]); a   *)
(* slot's buffer holds its first `length' bytes.  buffer[i] holds the      *)
(* bytes written so far at the start of chunk i of the ring, memory never  *)
(* written being zero.  Pointers to hosts are indices into heap, NULL      *)
(* being 0; live is the set of hosts malloc'ed and not yet free'd.  fds is *)
(* the set of health sockets that are open.                                *)
(*                                                                         *)
(* udp is the position of udp_read_cb: pc is "idle" between callbacks,     *)
(* "line" at the head of the loop over lines and "group" at the head of    *)
(* the loop over value groups of insert_values_into_slot.  buf is the      *)
(* receive buffer followed by the bytes the stack held after it.           *)
(*                                                                         *)
(* hist is not program state: accepted[i] lists the value groups folded    *)
(* into slot i, packed[i] the slots packed into chunk i by its last        *)
(* rotation, flush_calls the calls of downstream_schedule_flush made for   *)
(* the line being processed, line the last line udp_read_cb looked at,     *)
(* window the datagrams received since the last rotation or drop, split    *)
(* whether that rotation was made within a line, dropped whether the slot  *)
(* table was ever dropped on a full ring, sends the send steps made since  *)
(* the host set or an alive bit changed (each with the hosts alive then),  *)
(* datagrams, lookups and rounds the datagrams received, the lookups made   *)
(* and the health rounds run.                                              *)
(* fault names the first store or load outside a live object; the C        *)
(* standard gives the program no meaning from there, and the model stops.  *)
(***************************************************************************)
VARIABLES downstream, heap, live, fds, udp, resolver, hist, fault

vars == <<downstream, heap, live, fds, udp, resolver, hist, fault>>

NULL == 0

Chunks == 0..(DOWNSTREAM_BUF_NUM - 1)

slots_used == Len(downstream.slots)

\* the state a function of the aggregator works on
Agg == [d |-> downstream, h |-> hist, fault |-> fault]

\* new over old, from the first byte
Overlay(old, new) ==
    IF Len(new) >= Len(old) THEN new
    ELSE new \o SubSeq(old, Len(new) + 1, Len(old))

\* the first n bytes of mem, memory never written being zero
Take(mem, n) == [i \in 1..n |-> ByteAt(mem, i)]

\* the sequences of ss one after the other
RECURSIVE Concat(_)
Concat(ss) ==
    IF Len(ss) = 0 THEN <<>>
    ELSE IF Len(ss) = 1 THEN ss[1]
    ELSE Concat(SubSeq(ss, 1, Len(ss) \div 2))
         \o Concat(SubSeq(ss, (Len(ss) \div 2) + 1, Len(ss)))

RECURSIVE SumSeq(_)
SumSeq(ns) ==
    IF Len(ns) = 0 THEN 0
    ELSE IF Len(ns) = 1 THEN ns[1]
    ELSE SumSeq(SubSeq(ns, 1, Len(ns) \div 2))
         + SumSeq(SubSeq(ns, (Len(ns) \div 2) + 1, Len(ns)))

(***************************************************************************)
(* downstream_schedule_flush: pack the slots into the active chunk and     *)
(* rotate, or drop the slot table when the next chunk is still queued.     *)
(* sock_ok is whether socket() succeeds when the egress socket is          *)
(* replaced.                                                               *)
(***************************************************************************)
\* the packing loop without the test of lines 254-256
PackSlotsAll(slots) ==
    Concat([i \in 1..Len(slots) |->
               SubSeq(slots[i].buffer, 1, slots[i].length - 1) \o <<"\n">>])

\* lines 252-260: the slots that hold a payload, each with its last byte
\* rewritten to a newline
PackSlots(slots) ==
    LET keep == SelectSeq(slots, LAMBDA sl : sl.length # sl.name_length)
    IN Concat([i \in 1..Len(keep) |->
                  SubSeq(keep[i].buffer, 1, keep[i].length - 1) \o <<"\n">>])

PackedHist(slots, accepted) ==
    LET idx == SelectSeq([i \in 1..Len(slots) |-> i],
                         LAMBDA i : slots[i].length # slots[i].name_length)
    IN [k \in 1..Len(idx) |->
           [name |-> SubSeq(slots[idx[k]].buffer, 1, slots[idx[k]].name_length),
            type |-> slots[idx[k]].type,
            length |-> slots[idx[k]].length,
            groups |-> accepted[idx[k]]]]

\* memcpy of the packed bytes to the start of chunk idx: bytes past the
\* chunk's size land at the start of the next chunk
WriteRing(buffer, idx, bytes) ==
    IF Len(bytes) <= DOWNSTREAM_BUF_SIZE
    THEN [buffer EXCEPT ![idx] = Overlay(@, bytes)]
    ELSE IF idx + 1 < DOWNSTREAM_BUF_NUM
    THEN [buffer EXCEPT
            ![idx] = SubSeq(bytes, 1, DOWNSTREAM_BUF_SIZE),
            ![idx + 1] = Overlay(@, SubSeq(bytes, DOWNSTREAM_BUF_SIZE + 1, Len(bytes)))]
    ELSE [buffer EXCEPT ![idx] = SubSeq(bytes, 1, DOWNSTREAM_BUF_SIZE)]

\* the len bytes sendto reads from the start of chunk idx
ReadRing(buffer, idx, len) ==
    IF len <= DOWNSTREAM_BUF_SIZE THEN Take(buffer[idx], len)
    ELSE Take(buffer[idx], DOWNSTREAM_BUF_SIZE)
         \o Take(IF idx + 1 < DOWNSTREAM_BUF_NUM THEN buffer[idx + 1] ELSE <<>>,
                 len - DOWNSTREAM_BUF_SIZE)

RingFull(d) ==
    d.buffer_length[(d.active_buffer_idx + 1) % DOWNSTREAM_BUF_NUM] > 0

downstream_schedule_flush(s, sock_ok) ==
    LET d == s.d
        new_active_buffer_idx == (d.active_buffer_idx + 1) % DOWNSTREAM_BUF_NUM
        need_to_schedule_flush == d.active_buffer_idx = d.flush_buffer_idx
        bytes == PackSlots(d.slots)
        active_buffer_length == Len(bytes)
        oob == active_buffer_length > DOWNSTREAM_BUF_SIZE
               /\ d.active_buffer_idx = DOWNSTREAM_BUF_NUM - 1
        replace == need_to_schedule_flush /\ d.packets_sent > MAX_PACKETS_PER_SOCKET
        h1 == [s.h EXCEPT !.flush_calls = @ + 1, !.accepted = <<>>, !.window = <<>>]
    IN IF RingFull(d)
       THEN [s EXCEPT !.d = [d EXCEPT !.active_buffer_length = 0, !.slots = <<>>],
                      !.h = [h1 EXCEPT !.dropped = TRUE]]
       ELSE [s EXCEPT
              !.d = [d EXCEPT
                 !.buffer = WriteRing(@, d.active_buffer_idx, bytes),
                 !.buffer_length = [@ EXCEPT ![d.active_buffer_idx] = active_buffer_length],
                 !.active_buffer_length = 0,
                 !.slots = <<>>,
                 !.active_buffer_idx = new_active_buffer_idx,
                 !.packets_sent = IF replace THEN 0 ELSE @,
                 !.flush_fd = IF replace /\ sock_ok THEN @ + 1 ELSE @,
                 !.flush_watcher = @ \/ need_to_schedule_flush],
              !.h = [h1 EXCEPT
                 !.packed = [@ EXCEPT ![d.active_buffer_idx] =
                                PackedHist(d.slots, s.h.accepted)],
                 !.skipped = [@ EXCEPT ![d.active_buffer_idx] =
                                 Cardinality({i \in 1..Len(d.slots) :
                                    d.slots[i].length = d.slots[i].name_length})],
                 !.rotations = @ + 1,
                 !.tag = [@ EXCEPT ![d.active_buffer_idx] = s.h.rotations + 1],
                 !.unsent = @ \cup {d.active_buffer_idx}],
              !.fault = IF oob THEN "ring_oob" ELSE @]

(***************************************************************************)
(* add_slot and find_slot.  name is the first name_length bytes of the     *)
(* line.  The result of find_slot is the state and the slot's index.       *)
(***************************************************************************)
add_slot(s, name) ==
    IF Len(s.d.slots) >= NUM_OF_SLOTS
    THEN [s EXCEPT !.fault = "slots_oob"]
    ELSE [s EXCEPT
            !.d = [@ EXCEPT
               !.slots = Append(@, [buffer |-> name,
                                    name_length |-> Len(name),
                                    length |-> Len(name),
                                    counter |-> Zero,
                                    type |-> TYPE_UNKNOWN]),
               !.active_buffer_length = @ + Len(name)],
            !.h = [@ EXCEPT !.accepted = Append(@, <<>>)]]

SlotMatches(sl, name) ==
    sl.name_length = Len(name) /\ SubSeq(sl.buffer, 1, sl.name_length) = name

Added(s) == [s |-> s, slot_idx |-> Len(s.d.slots)]

NewSlot(s, name) == Added(IF s.fault # "none" THEN s ELSE add_slot(s, name))

find_slot(s, name, sock_ok) ==
    LET found == {i \in 1..Len(s.d.slots) : SlotMatches(s.d.slots[i], name)}
    IN IF found # {}
       THEN [s |-> s, slot_idx |-> Min(found)]
       ELSE NewSlot(IF s.d.active_buffer_length + Len(name) > DOWNSTREAM_BUF_SIZE
                    THEN downstream_schedule_flush(s, sock_ok)
                    ELSE s,
                    name)

(***************************************************************************)
(* One pass of the loop of insert_values_into_slot (lines 332-401) over    *)
(* the value group at u.g_ptr.  The result is the state, the position      *)
(* after the group and whether the loop goes on.                           *)
(***************************************************************************)
NUL == "\\0"

SetSlot(s, i, sl) == [s EXCEPT !.d = [@ EXCEPT !.slots = [@ EXCEPT ![i] = sl]]]

\* lines 369-378: the sampling rate of a counter group, 1 when there is
\* none, when strtod sets errno or when it does not stop one byte before the
\* group's end.  einval is whether the C library's strtod sets errno when it
\* converts nothing (POSIX allows both; glibc does not).
CounterRate(buf, g_ptr, data_length, type_ptr, einval) ==
    LET rate_ptr == Memchr(buf, type_ptr + 1, "|", data_length - (type_ptr - g_ptr))
        r == Strtod(buf, rate_ptr + 2)
    IN IF rate_ptr # NULL /\ ByteAt(buf, rate_ptr + 1) = "@"
          /\ ~(einval /\ r.endptr = rate_ptr + 2)
          /\ r.endptr + 1 = g_ptr + data_length
       THEN r.val
       ELSE One

\* lines 384-389: the slot's payload rewritten from its accumulator
Sprintf(sl, total, text) ==
    [sl EXCEPT !.counter = total,
               !.buffer = SubSeq(sl.buffer, 1, sl.name_length) \o text,
               !.length = sl.name_length + Len(text)]

Accumulate(sl, total) == Sprintf(sl, total, Fmt15g(total) \o <<"|", "c", "\n">>)

CounterRewrite(sl, counter) == Accumulate(sl, RatAdd(sl.counter, counter))

\* the rewritten payload counted without taking the old one off
CounterAccountAdded(active_buffer_length, old_length, new_length) ==
    active_buffer_length + new_length

\* lines 387-389: the accounting of a rewritten counter slot
CounterAccount(active_buffer_length, old_length, new_length) ==
    (active_buffer_length - old_length) + new_length

\* the group copied with the separator it came with
OtherAppendVerbatim(sl, group) ==
    [sl EXCEPT !.buffer = SubSeq(@, 1, sl.length) \o group,
               !.length = @ + Len(group)]

\* lines 393-397: the group copied to the end of the payload, its last byte
\* rewritten to a colon
OtherAppend(sl, group) ==
    [sl EXCEPT !.buffer = SubSeq(@, 1, sl.length)
                          \o SubSeq(group, 1, Len(group) - 1) \o <<":">>,
               !.length = @ + Len(group)]

\* line 361: the bytes the group may add do not fit in the active buffer
GroupOverflows(d, metric_type, data_length) ==
    d.active_buffer_length
      + (IF metric_type = TYPE_COUNTER THEN MAX_COUNTER_LENGTH ELSE data_length)
    > DOWNSTREAM_BUF_SIZE

\* lines 342-343, 355-356, 399-400: on to the next group; more is whether
\* a colon ended this one
NextGroup(u, data_length, slot_idx, more) ==
    [u EXCEPT !.g_ptr = @ + data_length,
              !.g_n = @ - data_length,
              !.slot_idx = slot_idx,
              !.pc = IF more THEN "group" ELSE "line"]

\* lines 362-364: the window flushed and the name put in a fresh slot with
\* the group's type
TagLast(s, metric_type) ==
    IF s.fault # "none" THEN s
    ELSE SetSlot(s, Len(s.d.slots),
                 [s.d.slots[Len(s.d.slots)] EXCEPT !.type = metric_type])

Retry(s, name, metric_type, sock_ok) ==
    TagLast(add_slot(downstream_schedule_flush(s, sock_ok), name), metric_type)

\* lines 368-391: a counter group folded into the slot
Rewritten(s, slot_idx, newslot, text) ==
    [s EXCEPT
       !.d = [@ EXCEPT
          !.slots = [@ EXCEPT ![slot_idx] = newslot],
          !.active_buffer_length =
              CounterAccount(@, s.d.slots[slot_idx].length, newslot.length)],
       !.h = [@ EXCEPT !.accepted = [@ EXCEPT ![slot_idx] = Append(@, text)]]]

StoreCounter(s, slot_idx, counter, valid, text) ==
    IF ~valid THEN s
    ELSE Rewritten(s, slot_idx, CounterRewrite(s.d.slots[slot_idx], counter), text)

\* lines 393-397: any other group appended to the slot
StoreOther(s, slot_idx, group, text) ==
    [s EXCEPT
       !.d = [@ EXCEPT
          !.slots = [@ EXCEPT ![slot_idx] = OtherAppend(@, group)],
          !.active_buffer_length = @ + Len(group)],
       !.h = [@ EXCEPT !.accepted = [@ EXCEPT ![slot_idx] = Append(@, text)]]]

\* lines 366-398
\* lines 379-383: the value of a counter group over its rate, and whether
\* strtod read the value up to the '|'
CounterValue(buf, g_ptr, type_ptr, v, rate, einval) ==
    [counter |-> RatDiv(v.val, rate),
     valid |-> v.endptr = type_ptr /\ ~(einval /\ v.endptr = g_ptr)]

StoreValue(s, slot_idx, c, text) == StoreCounter(s, slot_idx, c.counter, c.valid, text)

Store(s, slot_idx, u, data_length, type_ptr, metric_type, einval) ==
    LET group == SubSeq(u.buf, u.g_ptr, u.g_ptr + data_length - 1)
        text == SubSeq(u.buf, u.g_ptr, u.g_ptr + data_length - 2)
    IN IF s.fault # "none" THEN s
       ELSE IF metric_type = TYPE_COUNTER
       THEN StoreValue(s, slot_idx,
                       CounterValue(u.buf, u.g_ptr, type_ptr, Strtod(u.buf, u.g_ptr),
                                    CounterRate(u.buf, u.g_ptr, data_length,
                                                type_ptr, einval),
                                    einval),
                       text)
       ELSE StoreOther(s, slot_idx, group, text)

\* lines 346-365: the group is of the slot's type; the slot is the one at
\* slot_idx or, when the group may not fit, a fresh one after a flush
Placed(s, slot_idx, u, data_length, type_ptr, metric_type, einval, more) ==
    [s |-> Store(s, slot_idx, u, data_length, type_ptr, metric_type, einval),
     u |-> NextGroup(u, data_length, slot_idx, more)]

Retried(s, u, data_length, type_ptr, metric_type, einval, more) ==
    Placed(s, IF s.fault = "none" THEN Len(s.d.slots) ELSE u.slot_idx,
           u, data_length, type_ptr, metric_type, einval, more)

Tagged(s, u, data_length, type_ptr, metric_type, sock_ok, einval, more) ==
    IF GroupOverflows(s.d, metric_type, data_length)
    THEN Retried(Retry(s, SubSeq(u.buf, u.line, u.line + u.name_length - 1),
                       metric_type, sock_ok),
                 u, data_length, type_ptr, metric_type, einval, more)
    ELSE Placed(s, u.slot_idx, u, data_length, type_ptr, metric_type, einval, more)

Place(s, u, data_length, type_ptr, metric_type, sock_ok, einval, more) ==
    Tagged(SetSlot(s, u.slot_idx, [s.d.slots[u.slot_idx] EXCEPT !.type = metric_type]),
           u, data_length, type_ptr, metric_type, sock_ok, einval, more)

\* lines 339-359: a group without '|' and a group of the other type are
\* skipped
Typed(s, u, data_length, type_ptr, sock_ok, einval, more) ==
    LET metric_type == IF ByteAt(u.buf, type_ptr + 1) = "c" THEN TYPE_COUNTER
                       ELSE TYPE_OTHER
        type == s.d.slots[u.slot_idx].type
    IN IF type_ptr = NULL \/ (type # TYPE_UNKNOWN /\ type # metric_type)
       THEN [s |-> s, u |-> NextGroup(u, data_length, u.slot_idx, more)]
       ELSE Place(s, u, data_length, type_ptr, metric_type, sock_ok, einval, more)

\* lines 333-338
InsertGroup(s, u, sock_ok, einval) ==
    LET delimiter_ptr == Memchr(u.buf, u.g_ptr, ":", u.g_n)
        data_length == IF delimiter_ptr = NULL THEN u.g_n
                       ELSE delimiter_ptr - u.g_ptr + 1
    IN Typed(s, u, data_length, Memchr(u.buf, u.g_ptr, "|", data_length),
             sock_ok, einval, delimiter_ptr # NULL)

(***************************************************************************)
(* set_current_downstream_host: from the cursor (the list head when the    *)
(* cursor is NULL) step to the next host, wrapping, at most                *)
(* downstream_host_num times, and stop at the first host that is alive.    *)
(* The result is the new cursor; a step through a pointer to a free'd      *)
(* host, or through NULL, is a fault.                                      *)
(***************************************************************************)
RECURSIVE SelectFrom(_, _, _, _, _)
SelectFrom(host, i, d, hp, lv) ==
    IF i >= d.downstream_host_num THEN [cur |-> NULL, fault |-> "none"]
    ELSE IF host \notin lv THEN [cur |-> d.current_downstream_host, fault |-> "uaf"]
    ELSE LET nx == IF hp[host].next = NULL THEN d.downstream_hosts ELSE hp[host].next
         IN IF nx \notin lv
            THEN [cur |-> d.current_downstream_host, fault |-> "uaf"]
            ELSE IF hp[nx].alive THEN [cur |-> nx, fault |-> "none"]
            ELSE SelectFrom(nx, i + 1, d, hp, lv)

set_current_downstream_host(d, hp, lv) ==
    LET host == IF d.current_downstream_host = NULL THEN d.downstream_hosts
                ELSE d.current_downstream_host
    IN IF host = NULL THEN [cur |-> d.current_downstream_host, fault |-> "none"]
       ELSE SelectFrom(host, 0, d, hp, lv)

(***************************************************************************)
(* udp_read_cb, in steps.                                                  *)
(***************************************************************************)
UdpIdle == [pc |-> "idle", buf |-> <<>>, ptr |-> 1, n |-> 0, line |-> 1,
            name_length |-> 0, g_ptr |-> 1, g_n |-> 0, slot_idx |-> 0]

\* socket() may fail only where it is called: when the egress socket is
\* replaced
SockOutcomes == IF downstream.packets_sent > MAX_PACKETS_PER_SOCKET
                THEN BOOLEAN ELSE {TRUE}

\* the test of line 451 with both ends taken in
ValidLengthInclusive(line_length) ==
    line_length >= 6 /\ line_length <= DOWNSTREAM_BUF_SIZE - MAX_COUNTER_LENGTH

\* line 451
ValidLength(line_length) ==
    line_length > 6 /\ line_length < DOWNSTREAM_BUF_SIZE - MAX_COUNTER_LENGTH

\* lines 432-443: recv of a datagram into the buffer; a missing final
\* newline is added.  garbage is what the stack holds after the bytes
\* received.
UdpRecv(dgram, garbage) ==
    LET got == SubSeq(dgram, 1, IF Len(dgram) < DATA_BUF_SIZE - 1 THEN Len(dgram)
                                ELSE DATA_BUF_SIZE - 1)
        ended == got[Len(got)] = "\n"
        buf == IF ended THEN got \o garbage ELSE got \o <<"\n">> \o Tail(garbage)
    IN /\ fault = "none"
       /\ udp.pc = "idle"
       /\ Len(dgram) > 0
       /\ udp' = [UdpIdle EXCEPT !.pc = "line", !.buf = buf,
                                 !.n = IF ended THEN Len(got) ELSE Len(got) + 1]
       /\ hist' = [hist EXCEPT !.datagrams = @ + 1, !.window = Append(@, dgram)]
       /\ UNCHANGED <<downstream, heap, live, fds, resolver, fault>>

\* lines 444-460 with process_data_line: the next line of the buffer
UdpLine(sock_ok) ==
    LET buf == udp.buf
        delimiter_ptr == Memchr(buf, udp.ptr, "\n", udp.n)
        line_length == delimiter_ptr + 1 - udp.ptr
        colon_ptr == Memchr(buf, udp.ptr, ":", line_length)
        seen(handed) == [hist EXCEPT
                           !.flush_calls = 0,
                           !.line = [length |-> line_length, handed |-> handed]]
        next == [udp EXCEPT !.ptr = delimiter_ptr + 1, !.n = @ - line_length]
    IN /\ fault = "none"
       /\ udp.pc = "line"
       /\ IF delimiter_ptr = NULL
          THEN /\ udp' = UdpIdle
               /\ UNCHANGED <<downstream, hist, fault>>
          ELSE IF ~ValidLength(line_length)
          THEN /\ udp' = next
               /\ hist' = seen(FALSE)
               /\ UNCHANGED <<downstream, fault>>
          ELSE IF colon_ptr = NULL
          THEN /\ udp' = [next EXCEPT !.buf = [@ EXCEPT ![delimiter_ptr] = NUL]]
               /\ hist' = seen(TRUE)
               /\ UNCHANGED <<downstream, fault>>
          ELSE \E found \in {find_slot([d |-> downstream, h |-> seen(TRUE),
                                        fault |-> fault],
                                       SubSeq(buf, udp.ptr, colon_ptr), sock_ok)} :
               /\ udp' = [next EXCEPT !.pc = "group",
                                      !.line = udp.ptr,
                                      !.name_length = colon_ptr - udp.ptr + 1,
                                      !.g_ptr = colon_ptr + 1,
                                      !.g_n = line_length - (colon_ptr - udp.ptr) - 1,
                                      !.slot_idx = found.slot_idx]
               /\ downstream' = found.s.d
               /\ hist' = [found.s.h EXCEPT !.split = @ \/ found.s.h.flush_calls > 0]
               /\ fault' = found.s.fault
       /\ UNCHANGED <<heap, live, fds, resolver>>

\* one pass of the loop of insert_values_into_slot
UdpGroup(sock_ok, einval) ==
    /\ fault = "none"
    /\ udp.pc = "group"
    /\ \E r \in {InsertGroup(Agg, udp, sock_ok, einval)} :
       /\ udp' = r.u
       /\ downstream' = r.s.d
       /\ hist' = [r.s.h EXCEPT !.split = @ \/ r.s.h.flush_calls > hist.flush_calls]
       /\ fault' = r.s.fault
       /\ UNCHANGED <<heap, live, fds, resolver>>

(***************************************************************************)
(* downstream_flush_timer_cb and downstream_flush_cb.                      *)
(***************************************************************************)
FlushTimer(sock_ok) ==
    /\ fault = "none"
    /\ udp.pc = "idle"
    /\ downstream.active_buffer_length > 0
    /\ \E s \in {downstream_schedule_flush(
                    [d |-> downstream, h |-> [hist EXCEPT !.flush_calls = 0],
                     fault |-> fault], sock_ok)} :
       /\ downstream' = s.d
       /\ hist' = [s.h EXCEPT !.split = FALSE]
       /\ fault' = s.fault
       /\ UNCHANGED <<heap, live, fds, udp, resolver>>

\* lines 213-229: the buffer at flush_buffer_idx handed to sendto, sent or
\* not
SendStepKept(d, host) ==
    [d EXCEPT !.current_downstream_host = host, !.packets_sent = @ + 1]

SendStep(d, host) ==
    LET flush_buffer_idx == d.flush_buffer_idx
        next_idx == (flush_buffer_idx + 1) % DOWNSTREAM_BUF_NUM
    IN [d EXCEPT !.current_downstream_host = host,
                 !.buffer_length = [@ EXCEPT ![flush_buffer_idx] = 0],
                 !.packets_sent = @ + 1,
                 !.flush_buffer_idx = next_idx,
                 !.flush_watcher = next_idx # d.active_buffer_idx]

\* the hosts of the list, from host on
RECURSIVE ListFrom(_, _, _, _)
ListFrom(host, hp, lv, fuel) ==
    IF host = NULL \/ host \notin lv \/ fuel = 0 THEN <<>>
    ELSE <<host>> \o ListFrom(hp[host].next, hp, lv, fuel - 1)

HostList == ListFrom(downstream.downstream_hosts, heap, live, Len(heap))

AliveHosts == {HostList[k] : k \in {j \in 1..Len(HostList) : heap[HostList[j]].alive}}

FlushCb ==
    /\ fault = "none"
    /\ udp.pc = "idle"
    /\ downstream.flush_watcher
    /\ \E sel \in {set_current_downstream_host(downstream, heap, live)} :
       /\ fault' = sel.fault
       /\ IF sel.fault # "none" THEN UNCHANGED <<downstream, hist>>
          ELSE IF sel.cur = NULL
          THEN /\ downstream' = [downstream EXCEPT !.current_downstream_host = NULL,
                                                    !.flush_watcher = FALSE]
               /\ hist' = [hist EXCEPT !.sends = Append(@, [host |-> NULL, up |-> AliveHosts, list |-> HostList])]
          ELSE /\ downstream' = SendStep(downstream, sel.cur)
               /\ hist' = [hist EXCEPT !.sends = Append(@, [host |-> sel.cur, up |-> AliveHosts, list |-> HostList]),
                                        !.unsent = @ \ {downstream.flush_buffer_idx}]
       /\ UNCHANGED <<heap, live, fds, udp, resolver>>

(***************************************************************************)
(* The resolver thread: downstream_refresh and get_dns_data.  The thread   *)
(* runs beside the reactor, so each of its stores is a step of its own:    *)
(* the addresses (lines 480-484), downstream_host_num (line 485) and       *)
(* in_addr_new_ready (line 486).  answer is h_addr_list.                   *)
(***************************************************************************)
AddrSlots == 0..(MAX_DOWNSTREAM_NUM - 1)

\* get_dns_data called without the test of line 627
ResolverLookupAnyway(answer) ==
    LET i == IF Len(answer) < MAX_DOWNSTREAM_NUM THEN Len(answer)
             ELSE MAX_DOWNSTREAM_NUM
    IN /\ fault = "none"
       /\ resolver.pc = "sleep"
       /\ Len(answer) > 0
       /\ downstream' = [downstream EXCEPT !.in_addr_new =
              [k \in AddrSlots |-> IF k < i THEN answer[k + 1] ELSE @[k]]]
       /\ resolver' = [pc |-> "num", i |-> i]
       /\ hist' = [hist EXCEPT !.lookups = @ + 1]
       /\ UNCHANGED <<heap, live, fds, udp, fault>>

ResolverLookup(answer) ==
    LET i == IF Len(answer) < MAX_DOWNSTREAM_NUM THEN Len(answer)
             ELSE MAX_DOWNSTREAM_NUM
    IN /\ fault = "none"
       /\ resolver.pc = "sleep"
       /\ downstream.in_addr_new_ready = 0
       /\ Len(answer) > 0
       /\ downstream' = [downstream EXCEPT !.in_addr_new =
              [k \in AddrSlots |-> IF k < i THEN answer[k + 1] ELSE @[k]]]
       /\ resolver' = [pc |-> "num", i |-> i]
       /\ hist' = [hist EXCEPT !.lookups = @ + 1]
       /\ UNCHANGED <<heap, live, fds, udp, fault>>

ResolverNum ==
    /\ fault = "none"
    /\ resolver.pc = "num"
    /\ downstream' = [downstream EXCEPT !.downstream_host_num = resolver.i]
    /\ resolver' = [resolver EXCEPT !.pc = "ready"]
    /\ UNCHANGED <<heap, live, fds, udp, hist, fault>>

ResolverReady ==
    /\ fault = "none"
    /\ resolver.pc = "ready"
    /\ downstream' = [downstream EXCEPT !.in_addr_new_ready = 1]
    /\ resolver' = [pc |-> "sleep", i |-> 0]
    /\ UNCHANGED <<heap, live, fds, udp, hist, fault>>

(***************************************************************************)
(* update_downstreams.  m is [d, hp, lv, fault]: the downstream record,    *)
(* the heap, the live hosts and the fault.  prev is the place *prev names: *)
(* NULL for &downstream_hosts, a host for the next field of that host.     *)
(***************************************************************************)
\* lines 650-657: the first of the new addresses equal to addr, or -1
\* a reconciliation that matches no host and builds the list again
MatchAddrNone(d, addr) == -1

MatchAddrFirst(d, addr) ==
    IF 0 < d.downstream_host_num /\ d.in_addr_new[0] = addr THEN 0 ELSE -1

MatchAddr(d, addr) ==
    LET S == {i \in AddrSlots : i < d.downstream_host_num /\ d.in_addr_new[i] = addr}
    IN IF S = {} THEN -1 ELSE Min(S)

\* lines 659-668: the host unlinked through prev and free'd
DeleteHost(m, host, prev, next) ==
    IF prev # NULL /\ prev \notin m.lv THEN [m EXCEPT !.fault = "uaf"]
    ELSE [m EXCEPT
            !.d = [@ EXCEPT !.current_downstream_host = m.d.downstream_hosts,
                            !.downstream_hosts = IF prev = NULL THEN next ELSE @],
            !.hp = IF prev = NULL THEN @ ELSE [@ EXCEPT ![prev].next = next],
            !.lv = @ \ {host},
            !.fds = IF m.hp[host].fd > 0 THEN @ \ {m.hp[host].fd} ELSE @]

\* lines 646-672
RECURSIVE ReconcileOld(_, _, _)
ReconcileOld(m, host, prev) ==
    IF host = NULL \/ m.fault # "none" THEN m
    ELSE IF host \notin m.lv THEN [m EXCEPT !.fault = "uaf"]
    ELSE LET next == m.hp[host].next
             i == MatchAddr(m.d, m.hp[host].addr)
             kept == [m EXCEPT !.d = [@ EXCEPT !.in_addr_new = [@ EXCEPT ![i] = 0]]]
         IN ReconcileOld(IF i >= 0 THEN kept ELSE DeleteHost(m, host, prev, next),
                         next, host)

\* the hosts the heap of the model has room for
MaxHosts == 3

\* lines 677-693: a host for the address, put at the head of the list;
\* malloc fails when the heap is used up
NewHost(m, addr) ==
    [m EXCEPT
       !.hp = Append(@, [addr |-> addr, next |-> m.d.downstream_hosts,
                         alive |-> FALSE, fd |-> -1, active |-> FALSE,
                         cb |-> "none"]),
       !.lv = @ \cup {Len(m.hp) + 1},
       !.d = [@ EXCEPT !.downstream_hosts = Len(m.hp) + 1]]

\* lines 673-696
RECURSIVE ReconcileNew(_, _)
ReconcileNew(m, i) ==
    IF i >= m.d.downstream_host_num
    THEN [m EXCEPT !.d = [@ EXCEPT !.in_addr_new_ready = 0]]
    ELSE IF m.d.in_addr_new[i] = 0 THEN ReconcileNew(m, i + 1)
    ELSE IF Len(m.hp) >= MaxHosts THEN m
    ELSE ReconcileNew(NewHost(m, m.d.in_addr_new[i]), i + 1)

AddNew(m) == IF m.fault # "none" THEN m ELSE ReconcileNew(m, 0)

update_downstreams(m) ==
    IF m.d.in_addr_new_ready = 0 THEN m
    ELSE AddNew(ReconcileOld(m, m.d.downstream_hosts, NULL))

(***************************************************************************)
(* Health probes.                                                          *)
(***************************************************************************)
downstream_mark_down(host) == [host EXCEPT !.fd = -1, !.alive = FALSE]

\* a descriptor that is given up without close()
ClosedNever(open, host) == open

\* lines 707-710: the open sockets once downstream_mark_down has closed the
\* host's
Closed(open, host) == IF host.fd > 0 THEN open \ {host.fd} ELSE open

\* socket(): the lowest descriptor that is not open
Socket(open) == Min({k \in 1..(Cardinality(open) + 1) : k \notin open})

\* a tick that gives every probe a new socket
CheckHostFresh(host, started, fd) ==
    IF started
    THEN [downstream_mark_down(host) EXCEPT !.fd = fd, !.cb = "connect", !.active = TRUE]
    ELSE [downstream_mark_down(host) EXCEPT !.active = FALSE]

\* lines 776-807 for one host; started is whether socket, setnonblock and
\* connect leave a connection in progress, fd the descriptor socket gives
CheckHost(host, started, fd) ==
    LET stale == host.fd > 0 /\ host.active
        h1 == IF stale THEN [downstream_mark_down(host) EXCEPT !.active = FALSE]
              ELSE host
    IN IF h1.fd < 0
       THEN (IF started
             THEN [h1 EXCEPT !.fd = fd, !.cb = "connect", !.active = TRUE]
             ELSE h1)
       ELSE [h1 EXCEPT !.cb = "send", !.active = TRUE]

\* lines 779-783: the socket of a probe still in flight closed
Aborted(open, host) ==
    IF host.fd > 0 /\ host.active THEN Closed(open, host) ELSE open

\* lines 785-803: the sockets left open by the same step; without a
\* connection in progress the new socket is closed again
CheckFds(open, host, started, fd) ==
    IF ((host.fd > 0 /\ host.active) \/ host.fd < 0) /\ started
    THEN Aborted(open, host) \cup {fd}
    ELSE Aborted(open, host)

\* the probe of the host ended by this tick, if any
CheckVerdict(verdict, host, started) ==
    IF host.fd > 0 /\ host.active THEN "aborted"
    ELSE IF host.fd < 0 /\ ~started THEN "down"
    ELSE verdict

CheckOne(m, host, started, fd) ==
    [m EXCEPT !.hp = [@ EXCEPT ![host] = CheckHost(@, started, fd)],
              !.fds = CheckFds(@, m.hp[host], started, fd),
              !.vd = [@ EXCEPT ![host] = CheckVerdict(@, m.hp[host], started)]]

\* lines 775-808
RECURSIVE check_downstream_health(_, _, _)
check_downstream_health(m, host, started) ==
    IF host = NULL \/ m.fault # "none" THEN m
    ELSE IF host \notin m.lv THEN [m EXCEPT !.fault = "uaf"]
    ELSE check_downstream_health(
             CheckOne(m, host, host \in started, Socket(Aborted(m.fds, m.hp[host]))),
             m.hp[host].next, started)

\* the state the reconciliation and the probes work on
Hosts == [d |-> downstream, hp |-> heap, lv |-> live, fds |-> fds,
          vd |-> hist.verdict, fault |-> fault]

\* the ghost list of sends starts again when the host set or an alive bit
\* changes
SendsAfter(m) ==
    IF m.lv = live /\ m.d.downstream_hosts = downstream.downstream_hosts
       /\ \A h \in live : m.hp[h].alive = heap[h].alive
    THEN hist.sends ELSE <<>>

\* downstream_healthcheck_timer_cb
CheckAll(m, started) == check_downstream_health(m, m.d.downstream_hosts, started)

HealthTimer(started) ==
    /\ fault = "none"
    /\ udp.pc = "idle"
    /\ started \subseteq 1..MaxHosts
    /\ \E m \in {CheckAll(update_downstreams(Hosts), started)} :
       /\ downstream' = m.d
       /\ heap' = m.hp
       /\ live' = m.lv
       /\ fds' = m.fds
       /\ fault' = m.fault
       /\ hist' = [hist EXCEPT !.sends = SendsAfter(m), !.rounds = @ + 1,
                               !.verdict = m.vd]
       /\ UNCHANGED <<udp, resolver>>

\* a callback of the probe of host: the watcher is stopped (lines 721, 741,
\* 757) and the probe goes on ("flight") or ends "up" or "down"
Probe(host, cb, next_cb, verdict) ==
    /\ fault = "none"
    /\ udp.pc = "idle"
    /\ host \in live
    /\ heap[host].active
    /\ heap[host].cb = cb
    /\ heap' = [heap EXCEPT ![host] =
                   IF verdict = "down"
                   THEN [downstream_mark_down(@) EXCEPT !.active = FALSE]
                   ELSE IF verdict = "up"
                   THEN [@ EXCEPT !.active = FALSE, !.alive = TRUE]
                   ELSE [@ EXCEPT !.cb = next_cb, !.active = TRUE]]
    /\ fds' = IF verdict = "down" THEN Closed(fds, heap[host]) ELSE fds
    /\ hist' = [hist EXCEPT
                   !.sends = IF heap'[host].alive = heap[host].alive THEN @ ELSE <<>>,
                   !.verdict = IF verdict = "flight" THEN @
                               ELSE [@ EXCEPT ![host] = verdict]]
    /\ UNCHANGED <<downstream, live, udp, resolver, fault>>

\* err is SO_ERROR of the connection
downstream_health_connect_cb(host, err) ==
    Probe(host, "connect", "send", IF err THEN "down" ELSE "flight")

\* sent is whether send() wrote the request
downstream_health_send_cb(host, sent) ==
    Probe(host, "send", "read", IF sent THEN "flight" ELSE "down")

HEALTH_CHECK_UP_RESPONSE ==
    <<"h", "e", "a", "l", "t", "h", ":", " ", "u", "p", "\n">>

DOWNSTREAM_HEALTH_CHECK_BUF_SIZE == 32

\* lines 722-732: what the bytes recv() left in the buffer say; n is their
\* number, 0 or less when recv() failed or the peer closed
ReadVerdict(buffer, n) ==
    IF n <= 0 THEN "down"
    ELSE IF Take(SubSeq(buffer, 1, n) \o <<NUL>>, Len(HEALTH_CHECK_UP_RESPONSE))
            = HEALTH_CHECK_UP_RESPONSE
    THEN "up" ELSE "down"

\* reply is what the peer has sent, <<>> when recv() returns 0 or -1.  With
\* 32 bytes received the terminator of line 728 is stored one byte past the
\* buffer: missed is whether that byte is of the callback's pointer to the
\* host, so that the store of line 734 misses the host.
downstream_health_read_cb(host, reply, missed) ==
    LET n == Min({Len(reply), DOWNSTREAM_HEALTH_CHECK_BUF_SIZE})
        over == n = DOWNSTREAM_HEALTH_CHECK_BUF_SIZE
    IN /\ missed => over /\ ReadVerdict(reply, n) = "up"
       /\ fault = "none"
       /\ udp.pc = "idle"
       /\ host \in live
       /\ heap[host].active
       /\ heap[host].cb = "read"
       /\ heap' = [heap EXCEPT ![host] =
                      IF missed THEN [@ EXCEPT !.active = FALSE]
                      ELSE IF ReadVerdict(reply, n) = "down"
                      THEN [downstream_mark_down(@) EXCEPT !.active = FALSE]
                      ELSE [@ EXCEPT !.active = FALSE, !.alive = TRUE]]
       /\ fds' = IF ReadVerdict(reply, n) = "down" THEN Closed(fds, heap[host]) ELSE fds
       /\ hist' = [hist EXCEPT
                      !.sends = IF heap'[host].alive = heap[host].alive THEN @ ELSE <<>>,
                      !.verdict = [@ EXCEPT ![host] = ReadVerdict(reply, n)]]
       /\ fault' = IF over THEN "stack_oob" ELSE fault
       /\ UNCHANGED <<downstream, live, udp, resolver>>

(***************************************************************************)
(* Initial states.                                                         *)
(***************************************************************************)
NoHist == [accepted |-> <<>>, packed |-> [i \in Chunks |-> <<>>], flush_calls |-> 0,
           skipped |-> [i \in Chunks |-> 0], rotations |-> 0,
           tag |-> [i \in Chunks |-> 0], unsent |-> {},
           line |-> [length |-> 0, handed |-> FALSE], window |-> <<>>,
           split |-> FALSE, dropped |-> FALSE, sends |-> <<>>,
           datagrams |-> 0, lookups |-> 0, rounds |-> 0,
           verdict |-> [h \in 1..MaxHosts |-> "none"]]

\* init_downstream (lines 499-515) on the zeroed global
NoDownstream ==
    [slots |-> <<>>, active_buffer_length |-> 0, active_buffer_idx |-> 0,
     flush_buffer_idx |-> 0, buffer |-> [i \in Chunks |-> <<>>],
     buffer_length |-> [i \in Chunks |-> 0], flush_watcher |-> FALSE,
     flush_fd |-> 1, packets_sent |-> 0, downstream_host_num |-> 0,
     downstream_hosts |-> NULL, current_downstream_host |-> NULL,
     in_addr_new |-> [k \in AddrSlots |-> 0], in_addr_new_ready |-> 0]

\* the state main starts the reactor in: init_downstream has run
\* get_dns_data once (lines 533-538), answer being what it resolved
InitWith(answer) ==
    /\ downstream = [NoDownstream EXCEPT
                       !.in_addr_new = [k \in AddrSlots |->
                                          IF k < Len(answer) THEN answer[k + 1] ELSE 0],
                       !.downstream_host_num = Len(answer),
                       !.in_addr_new_ready = 1]
    /\ heap = <<>>
    /\ live = {}
    /\ fds = {}
    /\ udp = UdpIdle
    /\ resolver = [pc |-> "sleep", i |-> 0]
    /\ hist = NoHist
    /\ fault = "none"

\* the state after the first health round found the one host up: the
\* timer has made the host and connected, and the three probe callbacks
\* have run
InitUp ==
    /\ downstream = [NoDownstream EXCEPT
                       !.in_addr_new = [k \in AddrSlots |-> IF k = 0 THEN 1 ELSE 0],
                       !.downstream_host_num = 1,
                       !.downstream_hosts = 1]
    /\ heap = <<[addr |-> 1, next |-> NULL, alive |-> TRUE, fd |-> 1,
                 active |-> FALSE, cb |-> "read"]>>
    /\ live = {1}
    /\ fds = {1}
    /\ udp = UdpIdle
    /\ resolver = [pc |-> "sleep", i |-> 0]
    /\ hist = [NoHist EXCEPT !.verdict[1] = "up"]
    /\ fault = "none"

(***************************************************************************)
(* Aggregation of short lines.                                             *)
(***************************************************************************)
Seed_a1_a2 ==
    <<"a", ":", "1", "|", "c", "\n", "a", ":", "2", "|", "c", "\n">>

Seed_x3_x3 ==
    <<"x", ":", "3", "|", "c", "\n", "x", ":", "3", "|", "c", "\n">>

Seed_x6 ==
    <<"x", ":", "6", "|", "c", "\n">>

Seed_x1_rate ==
    <<"x", ":", "1", "|", "c", "|", "@", "0", ".", "2", "5", "\n">>

Seed_x4 ==
    <<"x", ":", "4", "|", "c", "\n">>

Seed_t250_t300 ==
    <<"t", ":", "2", "5", "0", "|", "m", "s", "\n", "t", ":", "3", "0", "0", "|", "m", "s", "\n">>

Seed_a1_a2ms ==
    <<"a", ":", "1", "|", "c", "\n", "a", ":", "2", "|", "m", "s", "\n">>

Line_xx3 ==
    <<"x", "x", ":", "3", "|", "c">>

Line_xx_mixed ==
    <<"x", "x", ":", "1", "|", "c", ":", "2", "|", "m", "s", ":", "3", "|", "c", "|", "@", "0", ".", "5", "\n">>

Line_tt_mixed ==
    <<"t", "t", ":", "5", "|", "m", "s", ":", "z", "z", ":", "1", "|", "c", ":", "7", "|", "g", "\n">>

Line_xx_rates ==
    <<"x", "x", ":", "1", "|", "c", "|", "@", ":", "x", "|", "c", ":", "2", "|", "c", "|", "@", "x", "\n">>

AggDatagrams == {Seed_a1_a2, Seed_x3_x3, Seed_x6, Seed_x1_rate, Seed_x4, Seed_t250_t300,
                 Seed_a1_a2ms, Line_xx3, Line_xx_mixed, Line_tt_mixed, Line_xx_rates}

\* what the stack holds after the bytes received
Garbage == {<<NUL, NUL>>, <<"5", NUL>>}

MaxDatagrams == 3

Ingress(datagrams, bound) ==
    \/ \E dgram \in datagrams, garbage \in Garbage :
          hist.datagrams < bound /\ UdpRecv(dgram, garbage)
    \/ \E sock_ok \in SockOutcomes : UdpLine(sock_ok)
    \/ \E sock_ok \in SockOutcomes, einval \in BOOLEAN : UdpGroup(sock_ok, einval)

Egress ==
    \/ \E sock_ok \in SockOutcomes : FlushTimer(sock_ok)
    \/ FlushCb

NextAgg == Ingress(AggDatagrams, MaxDatagrams) \/ Egress

SpecAgg == InitUp /\ [][NextAgg]_vars

(***************************************************************************)
(* Samples of timers and gauges, alone and mixed with counters.            *)
(***************************************************************************)
OtherDatagrams == {Seed_t250_t300, Seed_a1_a2ms, Line_xx_mixed, Line_tt_mixed, Seed_x6}

MaxOtherDatagrams == 3

NextOther == Ingress(OtherDatagrams, MaxOtherDatagrams) \/ Egress

SpecOther == InitUp /\ [][NextOther]_vars

(***************************************************************************)
(* What a flush emits.                                                     *)
(***************************************************************************)
\* the datagram queued in chunk i
Queued(i) == ReadRing(downstream.buffer, i, downstream.buffer_length[i])

\* where the segment of the k-th slot packed into a chunk starts
Offset(slots, k) == SumSeq([j \in 1..(k - 1) |-> slots[j].length])

Segment(i, k) ==
    SubSeq(Queued(i), Offset(hist.packed[i], k) + 1,
           Offset(hist.packed[i], k) + hist.packed[i][k].length)

RECURSIVE Joined(_)
Joined(groups) ==
    IF Len(groups) = 0 THEN <<>>
    ELSE IF Len(groups) = 1 THEN groups[1]
    ELSE groups[1] \o <<":">> \o Joined(Tail(groups))

Newlines(bytes) == Cardinality({j \in 1..Len(bytes) : bytes[j] = "\n"})

\* between callbacks, with no flush since the datagrams of the window came
\* in, and those being exactly the given ones
WindowIs(datagrams) ==
    udp.pc = "idle" /\ ~hist.split /\ hist.window = datagrams /\ fault = "none"

\* what a flush would emit now
Pending == PackSlots(downstream.slots)

\* C3: the segment emitted for a slot tagged other is its name, then the
\* value groups accepted for that name in arrival order with ':' between
\* them, then one newline, and it holds no other newline; t:250|ms followed
\* by t:300|ms is emitted as t:250|ms:300|ms\n.
C3_OtherSegment ==
    /\ \A i \in Chunks : \A k \in 1..Len(hist.packed[i]) :
          downstream.buffer_length[i] > 0 /\ hist.packed[i][k].type = TYPE_OTHER
          => /\ Segment(i, k) = hist.packed[i][k].name
                                \o Joined(hist.packed[i][k].groups) \o <<"\n">>
             /\ Newlines(Segment(i, k)) = 1
    /\ WindowIs(<<Seed_t250_t300>>)
       => Pending = <<"t", ":", "2", "5", "0", "|", "m", "s", ":", "3", "0", "0", "|", "m", "s", "\n">>

\* a queued datagram holds the segment of an other slot that took two
\* groups from two lines
C3_Witness ==
    \E i \in Chunks : \E k \in 1..Len(hist.packed[i]) :
       /\ downstream.buffer_length[i] > 0
       /\ hist.packed[i][k].type = TYPE_OTHER
       /\ Len(hist.packed[i][k].groups) >= 2
       /\ hist.packed[i][k].name = <<"t", ":">>

(***************************************************************************)
(* Counters, as the specification reads a sample: value, '|', 'c' and,     *)
(* after a second '|', '@' and the rate.                                   *)
(***************************************************************************)
IsNumber(text) == Len(text) > 0 /\ Strtod(text, 1).endptr = Len(text) + 1

SampleValue(text) == Strtod(text, 1).val

\* 1 when there is no rate or when the rate is not a number
SampleRate(text) ==
    LET bar == Memchr(text, 1, "|", Len(text))
        at == Memchr(text, bar + 1, "|", Len(text) - bar)
        rate == SubSeq(text, at + 2, Len(text))
    IN IF at # 0 /\ ByteAt(text, at + 1) = "@" /\ IsNumber(rate)
       THEN Strtod(rate, 1).val
       ELSE One

RECURSIVE SumOfSamples(_)
SumOfSamples(texts) ==
    IF texts = <<>> THEN Zero
    ELSE RatAdd(SumOfSamples(SubSeq(texts, 1, Len(texts) - 1)),
                RatDiv(SampleValue(texts[Len(texts)]), SampleRate(texts[Len(texts)])))

C2_Sums ==
    \A i \in Chunks : \A k \in 1..Len(hist.packed[i]) :
       downstream.buffer_length[i] > 0 /\ hist.packed[i][k].type = TYPE_COUNTER
       => Segment(i, k) = hist.packed[i][k].name
                          \o Fmt15g(SumOfSamples(hist.packed[i][k].groups))
                          \o <<"|", "c", "\n">>

C2_Examples ==
    /\ WindowIs(<<Seed_a1_a2>>) => Pending = <<"a", ":", "3", "|", "c", "\n">>
    /\ WindowIs(<<Seed_x3_x3>>) => Pending = <<"x", ":", "6", "|", "c", "\n">>
    /\ WindowIs(<<Seed_x6>>) => Pending = <<"x", ":", "6", "|", "c", "\n">>
    /\ WindowIs(<<Seed_x1_rate>>) => Pending = <<"x", ":", "4", "|", "c", "\n">>
    /\ WindowIs(<<Seed_x4>>) => Pending = <<"x", ":", "4", "|", "c", "\n">>

\* C2: the payload emitted for a slot tagged counter is the formatting of
\* the sum of value/rate over the counter samples accepted for the name in
\* the window, the rate being 1 when absent or invalid, followed by "|c\n";
\* a:1|c then a:2|c emits a:3|c, two x:3|c emit what one x:6|c emits, and
\* x:1|c|@0.25 emits what x:4|c emits.
C2_CounterPayload == C2_Sums /\ C2_Examples

(***************************************************************************)
(* Groups of the other category.                                           *)
(***************************************************************************)
\* the group udp_read_cb is at, as insert_values_into_slot splits it off
GroupLength ==
    LET colon == Memchr(udp.buf, udp.g_ptr, ":", udp.g_n)
    IN IF colon = 0 THEN udp.g_n ELSE colon - udp.g_ptr + 1

GroupBar == Memchr(udp.buf, udp.g_ptr, "|", GroupLength)

GroupCategory ==
    IF ByteAt(udp.buf, GroupBar + 1) = "c" THEN TYPE_COUNTER ELSE TYPE_OTHER

Mismatch ==
    /\ udp.pc = "group"
    /\ fault = "none"
    /\ GroupBar # 0
    /\ downstream.slots[udp.slot_idx].type \notin {TYPE_UNKNOWN, GroupCategory}

C4_Skips ==
    Mismatch => /\ downstream' = downstream
                /\ hist'.flush_calls = hist.flush_calls
                /\ udp'.g_ptr = udp.g_ptr + GroupLength
                /\ udp.g_n > GroupLength => udp'.pc = "group"

C4_Example == WindowIs(<<Seed_a1_a2ms>>) => Pending = <<"a", ":", "1", "|", "c", "\n">>

\* C4: a value group whose category differs from the tag of its slot
\* changes nothing of the slot table, the accounting and the ring and
\* schedules no flush, and the groups after it are processed; a:1|c
\* followed by a:2|ms emits a:1|c\n.
C4_MismatchSkipped == [][C4_Skips /\ C4_Example']_vars

(***************************************************************************)
(* Lines near the size of a datagram.                                      *)
(***************************************************************************)
\* a line of n bytes with one value group of the other category
PadLine(n) == <<"t", ":">> \o Rep("9", n - 6) \o <<"|", "m", "s", "\n">>

\* a counter whose sum prints longer than the sample
Line_x_third ==
    <<"x", ":", "1", "|", "c", "|", "@", "3", "\n">>

\* a line of 1431 bytes: a name of 1417 bytes and two counter groups
Line_wide ==
    Rep("n", 1416) \o <<":", "1", "|", "c", "|", "@", "4", "0", "9", "6", ":", "1", "|", "c", "\n">>

MtuDatagrams == {PadLine(40), PadLine(1429), PadLine(1431), PadLine(1432),
                 PadLine(1433), Seed_x6, Line_xx3, Line_x_third, Line_wide}

MaxMtuDatagrams == 2

NextMtu == Ingress(MtuDatagrams, MaxMtuDatagrams) \/ Egress

SpecMtu == InitUp /\ [][NextMtu]_vars

\* C1: every rotation packs at most DOWNSTREAM_BUF_SIZE bytes, so that no
\* datagram handed to sendto is longer.
C1_DatagramFits ==
    \A i \in Chunks : downstream.buffer_length[i] <= DOWNSTREAM_BUF_SIZE

\* udp_read_cb takes a line off the buffer; its length counts the newline
LineStep ==
    /\ udp.pc = "line"
    /\ Memchr(udp.buf, udp.ptr, "\n", udp.n) # NULL
    /\ udp' # udp

LineLength == Memchr(udp.buf, udp.ptr, "\n", udp.n) + 1 - udp.ptr

DroppedUnchanged == ~hist'.line.handed => downstream' = downstream

C8_OneFlush == hist.flush_calls <= 1

(***************************************************************************)
(* Many short names in one window.                                         *)
(***************************************************************************)
Letters == <<"a", "b", "c", "d", "e", "f", "g", "h", "i", "j", "k", "l", "m", "n", "o">>

\* the k-th name of two letters, with its colon
ShortName(k) ==
    <<Letters[(k \div Len(Letters)) + 1], Letters[(k % Len(Letters)) + 1], ":">>

\* count lines of seven bytes, each a name of its own and the same group
ShortLines(first, count, group) ==
    Concat([k \in 1..count |-> ShortName(first + k - 1) \o group \o <<"\n">>])

\* a group without '|', which leaves its slot with the name alone
NoBar == <<"z", "z", "z">>

OneCount == <<"1", "|", "c">>

FillDatagrams ==
    {ShortLines(0, NUM_OF_SLOTS + 1, NoBar),
     ShortLines(0, NUM_OF_SLOTS \div 2, NoBar),
     ShortLines(NUM_OF_SLOTS \div 2, NUM_OF_SLOTS - (NUM_OF_SLOTS \div 2) + 1, NoBar),
     ShortLines(0, NUM_OF_SLOTS + 1, OneCount)}

MaxFillDatagrams == 2

NextFill == Ingress(FillDatagrams, MaxFillDatagrams) \/ Egress

SpecFill == InitUp /\ [][NextFill]_vars

\* C7: slots_used never exceeds NUM_OF_SLOTS, and add_slot is never called
\* when slots_used = NUM_OF_SLOTS.
C7_SlotsBounded == slots_used <= NUM_OF_SLOTS /\ fault # "slots_oob"

(***************************************************************************)
(* Hosts: the resolver, the reconciliation, the probes and the sends.      *)
(***************************************************************************)
\* what gethostbyname may answer: one or two of two addresses
Answers == {<<1>>, <<2>>, <<1, 2>>, <<2, 1>>}

MaxLookups == 1

MaxRounds == 2

MaxSendDatagrams == 2

\* what a health port may answer: nothing, the up response, the up response
\* without its newline, another status, and the up response with more after
\* it, 32 bytes in all
\* an answer that is up and one that is not
Verdicts == {HEALTH_CHECK_UP_RESPONSE, <<>>}

Replies ==
    {<<>>,
     HEALTH_CHECK_UP_RESPONSE,
     SubSeq(HEALTH_CHECK_UP_RESPONSE, 1, Len(HEALTH_CHECK_UP_RESPONSE) - 1),
     <<"h", "e", "a", "l", "t", "h", ":", " ", "d", "o", "w", "n", "\n">>,
     HEALTH_CHECK_UP_RESPONSE
        \o Rep("x", DOWNSTREAM_HEALTH_CHECK_BUF_SIZE - Len(HEALTH_CHECK_UP_RESPONSE))}

Resolve(answers, lookups) ==
    \/ \E answer \in answers : hist.lookups < lookups /\ ResolverLookup(answer)
    \/ ResolverNum
    \/ ResolverReady

Health(replies, rounds) ==
    \/ \E started \in SUBSET (1..MaxHosts) :
          hist.rounds < rounds /\ HealthTimer(started)
    \/ \E host \in 1..MaxHosts, err \in BOOLEAN : downstream_health_connect_cb(host, err)
    \/ \E host \in 1..MaxHosts, sent \in BOOLEAN : downstream_health_send_cb(host, sent)
    \/ \E host \in 1..MaxHosts, reply \in replies, missed \in BOOLEAN :
          downstream_health_read_cb(host, reply, missed)

InitSend == \E answer \in Answers : InitWith(answer)

NextSend ==
    Ingress({Line_xx3}, MaxSendDatagrams) \/ Egress \/ Resolve(Answers, MaxLookups) \/ Health(Verdicts, MaxRounds)

SpecSend == InitSend /\ [][NextSend]_vars

\* C9: while the host set and the alive bits stay as they are, with K >= 1
\* hosts alive, any K send steps in a row select each alive host once.
C9_RoundRobin ==
    \A j \in 1..Len(hist.sends) :
       LET K == Cardinality(hist.sends[j].up)
       IN /\ K >= 1
          /\ j + K - 1 <= Len(hist.sends)
          /\ \A i \in j..(j + K - 1) : /\ hist.sends[i].up = hist.sends[j].up
                                       /\ hist.sends[i].list = hist.sends[j].list
          => {hist.sends[i].host : i \in j..(j + K - 1)} = hist.sends[j].up

\* C10: the host a send step selects is alive, and a send step finds no
\* host only when no host of the list is alive.
C10_SelectsAlive ==
    \A j \in 1..Len(hist.sends) :
       IF hist.sends[j].host = NULL THEN hist.sends[j].up = {}
       ELSE hist.sends[j].host \in hist.sends[j].up

(***************************************************************************)
(* The ring under load: a datagram of five long lines whose names          *)
(* alternate, so that every line that does not find its slot finds the     *)
(* active buffer too full for its name and rotates, followed by counter    *)
(* and timer samples, the last of them without its newline.  Sixteen       *)
(* rotations with no send in between fill the ring.                        *)
(***************************************************************************)
LongName(ch) == Rep(ch, 724)

LongLine(ch) == LongName(ch) \o <<":", "1", "|", "c", "\n">>

Samples ==
    <<"x", "x", ":", "1", "|", "c", "\n", "t", "t", ":", "9", "|", "m", "s", "\n",
      "x", "x", ":", "2", "|", "c", "\n", "t", "t", ":", "8", "|", "m", "s">>

Burst ==
    Concat(<<LongLine("a"), LongLine("b"), LongLine("a"), LongLine("b"), LongLine("a"),
             Samples>>)

RingDatagrams == {Burst}

MaxRingDatagrams == 4

NextRing == Ingress(RingDatagrams, MaxRingDatagrams) \/ Egress

SpecRing == InitUp /\ [][NextRing]_vars

\* C6: between two reactor callbacks the active-buffer accounting is the sum
\* of the lengths of the used slots, name and payload together.
C6_Accounting ==
    fault = "none" /\ udp.pc = "idle"
    => downstream.active_buffer_length
          = SumSeq([i \in 1..slots_used |-> downstream.slots[i].length])

\* after a ring-full drop and rotations: a counter slot rewritten by a second
\* sample and a slot of another type with a second value appended
C6_Witness ==
    /\ fault = "none"
    /\ udp.pc = "idle"
    /\ hist.dropped
    /\ \E i \in Chunks : downstream.buffer_length[i] > 0
    /\ \E i \in 1..slots_used :
          /\ downstream.slots[i].type = TYPE_COUNTER
          /\ downstream.slots[i].counter = Rat(3, 1)
    /\ \E i \in 1..slots_used :
          /\ downstream.slots[i].type = TYPE_OTHER
          /\ downstream.slots[i].length = downstream.slots[i].name_length + 10
    /\ downstream.active_buffer_length > 0

(***************************************************************************)
(* The host set and its probes alone: lookups, health rounds and the probe *)
(* callbacks.                                                              *)
(***************************************************************************)
MaxHealthLookups == 1

MaxHealthRounds == 2

NextHealth == Resolve(Answers, MaxHealthLookups) \/ Health(Replies, MaxHealthRounds)

SpecHealth == InitSend /\ [][NextHealth]_vars

Renumbered == {<<1, 2>>, <<3>>, <<2, 3>>}

MaxRenumberLookups == 1

MaxRenumberRounds == 2

InitRenumber == \E answer \in Renumbered : InitWith(answer)

NextRenumber == Resolve(Renumbered, MaxRenumberLookups) \/ Health(Verdicts, MaxRenumberRounds)

SpecRenumber == InitRenumber /\ [][NextRenumber]_vars

\* a health round that finds the ready flag set and reconciles
Reconciles == hist'.rounds # hist.rounds /\ downstream.in_addr_new_ready = 1

\* the addresses the resolver left for it
NewAddrs ==
    {downstream.in_addr_new[i] : i \in {k \in AddrSlots : k < downstream.downstream_host_num}}

ListedHosts == {HostList[k] : k \in 1..Len(HostList)}

Survivors == {h \in ListedHosts : heap[h].addr \in NewAddrs}

\* C12: after update_downstreams has consumed a ready address set the list
\* holds the previous hosts whose address is in the new set and one new host
\* for each address no previous host had, no host whose address is absent
\* from the new set, and no address twice.
C12_Reconciled ==
    [][Reconciles =>
         /\ Survivors \subseteq ListedHosts'
         /\ {heap'[h].addr : h \in ListedHosts'} = NewAddrs
         /\ (ListedHosts' \ Survivors) \cap ListedHosts = {}
         /\ Cardinality(ListedHosts') = Cardinality(NewAddrs)
         /\ ListedHosts' \subseteq live']_vars

\* a reconcile whose address set is the set of addresses of the host list
SameSet == Reconciles /\ NewAddrs = {heap[h].addr : h \in ListedHosts}

\* C13: reconciling with the addresses the host list already has keeps the
\* host records, their order, every alive bit, probe fd and watcher state and
\* the cursor, and clears the ready flag (the consumed entries of in_addr_new
\* are zeroed, nothing else of the downstream changes).
C13_SameSetNoOp ==
    [][SameSet =>
         \E m \in {update_downstreams(Hosts)} :
            /\ m.hp = heap /\ m.lv = live /\ m.fds = fds /\ m.fault = "none"
            /\ m.d = [downstream EXCEPT !.in_addr_new = m.d.in_addr_new,
                                        !.in_addr_new_ready = 0]
            /\ HostList' = HostList
            /\ downstream'.current_downstream_host = downstream.current_downstream_host
            /\ downstream'.in_addr_new_ready = 0]_vars

\* a lookup was consumed with every address matched and no host ever removed
C13_Witness ==
    /\ hist.lookups >= 1 /\ resolver.pc = "sleep"
    /\ downstream.in_addr_new_ready = 0
    /\ Len(heap) = 2 /\ live = {1, 2} /\ downstream.downstream_host_num = 2
    /\ \A k \in AddrSlots : downstream.in_addr_new[k] = 0

\* a health round, and a send step
Ticks == hist'.rounds # hist.rounds

Sends == Len(hist'.sends) = Len(hist.sends) + 1

\* the probe of the host is in flight
InFlight(h) == h \in live /\ heap[h].fd > 0 /\ heap[h].active

\* C14: a tick that finds a host's probe in flight stops it, closes its fd and
\* clears its alive bit, and starts a new probe (a connection in progress on a
\* new socket, when socket and connect allow one); while the host stays not
\* alive next to an alive host, a send step goes to an alive host.
C14_ForcedAbort ==
    [][/\ Ticks =>
            \A h \in ListedHosts' : InFlight(h) =>
               /\ ~heap'[h].alive
               /\ hist'.verdict[h] = "aborted"
               /\ heap[h].fd \notin Aborted(fds, heap[h])
               /\ \/ heap'[h].active /\ heap'[h].cb = "connect" /\ heap'[h].fd \in fds'
                  \/ ~heap'[h].active /\ heap'[h].fd = -1
       /\ Sends =>
            \A a \in ListedHosts :
               hist.verdict[a] = "aborted" /\ ~heap[a].alive /\ AliveHosts # {} =>
                  /\ hist'.sends[Len(hist'.sends)].host \in AliveHosts
                  /\ hist'.sends[Len(hist'.sends)].host # a]_vars

(***************************************************************************)
(* One downstream host that does not change, datagrams, and an egress      *)
(* socket that becomes writable whenever its watcher stays armed.          *)
(***************************************************************************)
OneHost == {<<1>>}

MaxDrainLookups == 1

MaxDrainRounds == 2

MaxDrainDatagrams == 2

InitDrain == \E answer \in OneHost : InitWith(answer)

NextDrain ==
    \/ Ingress({Line_xx3}, MaxDrainDatagrams)
    \/ Egress
    \/ Resolve(OneHost, MaxDrainLookups)
    \/ Health(Verdicts, MaxDrainRounds)

SpecDrain == InitDrain /\ [][NextDrain]_vars /\ WF_vars(FlushCb)

\* a rotated buffer awaits send
Awaits == downstream.flush_buffer_idx # downstream.active_buffer_idx

\* the watcher stopped with data at the head of the queue; no step of the
\* program leaves this condition (StuckStays holds of SpecDrain), so the
\* run that ends in it ends there with any number of further datagrams
Stuck ==
    /\ Awaits /\ ~downstream.flush_watcher
    /\ downstream.buffer_length[downstream.flush_buffer_idx] > 0

StuckStays == [][Stuck => Stuck']_vars

\* the reactor is between callbacks
Returned == udp.pc = "idle"

\* C15: if a rotated buffer awaits send and from some point on a host stays
\* alive, the queue is drained in the end (udp_read_cb always returning), also
\* after a send step that found no alive host has disarmed the watcher.
C15_Drained ==
    (<>[](AliveHosts # {}) /\ []<>Returned) => (Awaits ~> ~Awaits)

\* the buffers from flush_buffer_idx up to active_buffer_idx, around the ring
InQueue(i) ==
    (i - downstream.flush_buffer_idx) % DOWNSTREAM_BUF_NUM
       < (downstream.active_buffer_idx - downstream.flush_buffer_idx) % DOWNSTREAM_BUF_NUM

\* C16: with active_buffer_idx = flush_buffer_idx every buffer_length is 0
\* and the flush watcher is not armed; otherwise the buffers of the queue
\* have a nonzero buffer_length and all the others have 0.
C16_RingInvariant ==
    /\ ~Awaits => /\ \A i \in 0..(DOWNSTREAM_BUF_NUM - 1) : downstream.buffer_length[i] = 0
                  /\ ~downstream.flush_watcher
    /\ Awaits => \A i \in 0..(DOWNSTREAM_BUF_NUM - 1) :
                    downstream.buffer_length[i] > 0 <=> InQueue(i)

(***************************************************************************)
(* Datagrams of one line that leaves its slot with the name alone, as many *)
(* as the ring has buffers.                                                *)
(***************************************************************************)
WrapDatagrams == {ShortLines(0, 1, NoBar)}

MaxWrapDatagrams == 16

NextWrap == Ingress(WrapDatagrams, MaxWrapDatagrams) \/ Egress

SpecWrap == InitUp /\ [][NextWrap]_vars

\* the ring as the send step and the rotation see it
Ring == [active_buffer_idx |-> downstream.active_buffer_idx,
         flush_buffer_idx |-> downstream.flush_buffer_idx,
         buffer_length |-> downstream.buffer_length,
         buffer |-> downstream.buffer]

\* C17: with the ring full a rotation discards the slot table and leaves
\* active_buffer_idx, flush_buffer_idx, every buffer_length and the buffers
\* as they are; a rotation never moves active_buffer_idx onto a buffer of the
\* queue.
C17_RingFull ==
    [][/\ RingFull(downstream) /\ ~Sends => Ring' = Ring
       /\ RingFull(downstream) /\ udp' = udp /\ downstream'.slots # downstream.slots =>
             downstream'.slots = <<>> /\ downstream'.active_buffer_length = 0
       /\ downstream'.active_buffer_idx # downstream.active_buffer_idx =>
             ~InQueue(downstream'.active_buffer_idx)]_vars

\* the host the last send step selected, NULL when it found none
Selected == hist'.sends[Len(hist'.sends)].host

\* C18: a send step with a selected host sets buffer_length[flush_buffer_idx]
\* to 0, adds 1 to packets_sent and advances flush_buffer_idx by one modulo
\* DOWNSTREAM_BUF_NUM, whatever sendto returned; the watcher is disarmed
\* exactly when flush_buffer_idx = active_buffer_idx afterwards, and nothing
\* is queued again.
C18_SendStep ==
    [][Sends /\ Selected # NULL =>
         /\ downstream'.buffer_length =
               [downstream.buffer_length EXCEPT ![downstream.flush_buffer_idx] = 0]
         /\ downstream'.packets_sent = downstream.packets_sent + 1
         /\ downstream'.flush_buffer_idx =
               (downstream.flush_buffer_idx + 1) % DOWNSTREAM_BUF_NUM
         /\ downstream'.flush_watcher =
               (downstream'.flush_buffer_idx # downstream'.active_buffer_idx)
         /\ downstream'.active_buffer_idx = downstream.active_buffer_idx
         /\ downstream'.buffer = downstream.buffer
         /\ downstream'.slots = downstream.slots]_vars

\* a buffer has been sent and the next one waits with the watcher armed
C18_Witness ==
    /\ Len(hist.sends) >= 1 /\ hist.sends[Len(hist.sends)].host # NULL
    /\ downstream.packets_sent >= 1
    /\ downstream.flush_buffer_idx = 1
    /\ downstream.active_buffer_idx = 2
    /\ downstream.buffer_length[0] = 0
    /\ downstream.buffer_length[1] > 0
    /\ downstream.flush_watcher

\* the probe of the host ends in this step, in a callback of its watcher
Finishes(h) == ~Ticks /\ h \in live /\ heap[h].active /\ ~heap'[h].active

\* the tick finds the host without a descriptor or with a probe in flight
StartsAnew(h) == h \notin live \/ heap[h].fd < 0 \/ InFlight(h)

C20_NoLeak ==
    fault = "none" =>
       /\ \A f \in fds : Cardinality({h \in ListedHosts : heap[h].fd = f}) = 1
       /\ \A h \in ListedHosts : heap[h].fd > 0 => heap[h].fd \in fds

\* a host was removed while it held a descriptor, another host holds the
\* only open one
C20_Witness ==
    /\ fault = "none"
    /\ \E h \in (1..Len(heap)) \ live : heap[h].fd > 0 /\ heap[h].fd \notin fds
    /\ \E g \in ListedHosts : fds = {heap[g].fd}

\* the fields of a host that its probes and the send step use
ProbeState(hp, h) ==
    [alive |-> hp[h].alive, fd |-> hp[h].fd, active |-> hp[h].active,
     cb |-> hp[h].cb, addr |-> hp[h].addr]

\* C21: update_downstreams leaves the alive bit, the probe fd, the probe
\* watcher state and the addresses of every host whose address is in the new
\* set as they were and keeps the host in the list, whatever hosts it adds or
\* removes (in a reconciliation without undefined behaviour).
C21_SurvivorsKept ==
    [][Reconciles =>
         \E m \in {update_downstreams(Hosts)} :
            m.fault = "none" =>
               \A h \in Survivors :
                  /\ h \in m.lv
                  /\ ProbeState(m.hp, h) = ProbeState(heap, h)
                  /\ (heap[h].fd > 0 => heap[h].fd \in m.fds)
                  /\ h \in ListedHosts']_vars

\* a host stays alive through a reconciliation that removed one host and
\* added another
C21_Witness ==
    /\ fault = "none" /\ hist.lookups >= 1 /\ hist.rounds >= 2
    /\ downstream.in_addr_new_ready = 0
    /\ Len(heap) = 3 /\ 3 \in ListedHosts /\ Cardinality(live) = 2
    /\ \E h \in ListedHosts : h < 3 /\ heap[h].alive /\ heap[h].fd > 0

\* a step of the resolver thread
Resolves == resolver' # resolver

\* what the resolver hands over
Handed == [in_addr_new |-> downstream.in_addr_new,
           downstream_host_num |-> downstream.downstream_host_num]

\* C22: with the stores of get_dns_data seen in program order, under every
\* interleaving the resolver writes only while ready is clear and sets ready
\* after its last write, the reactor touches the addresses only in a tick
\* that finds ready set and clears ready when it has reconciled; so a
\* reconciliation works on one completely written set, and a published set
\* stays as it is until it is consumed.
C22_Handoff ==
    /\ [](resolver.pc # "sleep" => downstream.in_addr_new_ready = 0)
    /\ [][/\ Resolves /\ Handed' # Handed => downstream.in_addr_new_ready = 0
          /\ Resolves /\ downstream'.in_addr_new_ready = 1 =>
                Handed' = Handed /\ resolver'.pc = "sleep"
          /\ downstream.in_addr_new_ready = 1 /\ ~Ticks => Handed' = Handed
          /\ downstream.in_addr_new_ready = 0 /\ ~Resolves =>
                Handed' = Handed /\ downstream'.in_addr_new_ready = 0
          /\ Reconciles =>
                /\ resolver.pc = "sleep" /\ resolver' = resolver
                /\ 0 \notin NewAddrs
                /\ downstream'.downstream_host_num = downstream.downstream_host_num
                /\ fault' = "none" => downstream'.in_addr_new_ready = 0]_vars

\* a set the resolver published during the run has been consumed
C22_Witness ==
    /\ fault = "none" /\ hist.lookups >= 1 /\ hist.rounds >= 2
    /\ resolver.pc = "sleep" /\ downstream.in_addr_new_ready = 0
    /\ \E k \in AddrSlots : downstream.in_addr_new[k] # 0

\* what set_current_downstream_host, the send step and the probes read
ReactorReads ==
    [downstream_host_num |-> downstream.downstream_host_num,
     downstream_hosts |-> downstream.downstream_hosts,
     current_downstream_host |-> downstream.current_downstream_host,
     buffer_length |-> downstream.buffer_length,
     flush_buffer_idx |-> downstream.flush_buffer_idx,
     heap |-> heap, live |-> live]

\* C23: no step of the resolver thread changes a value that the selector,
\* the send step or the probes read; downstream_host_num changes only in a
\* reconciliation on the reactor thread.
C23_SharedOnlyHandoff == [][Resolves => ReactorReads' = ReactorReads]_vars

\* a rotation that advances active_buffer_idx
Rotates == downstream'.active_buffer_idx # downstream.active_buffer_idx

\* C28: every rotation that advances active_buffer_idx records a
\* buffer_length of at least 1 for the buffer it queues, and every send step
\* hands sendto at least one byte.
C28_NoEmptyDatagram ==
    [][/\ Rotates => downstream'.buffer_length[downstream.active_buffer_idx] >= 1
       /\ Sends /\ Selected # NULL =>
             downstream.buffer_length[downstream.flush_buffer_idx] >= 1]_vars

\* C26: after update_downstreams the cursor current_downstream_host is NULL
\* or a host of the new list, the list head is a host still allocated, and no
\* send step reads a host that was removed.
C26_CursorListed ==
    /\ [][Reconciles /\ fault' = "none" =>
             /\ downstream'.current_downstream_host \in {NULL} \cup ListedHosts'
             /\ downstream'.downstream_hosts \in {NULL} \cup live']_vars
    /\ [][FlushCb => fault' # "uaf"]_vars

(***************************************************************************)
(* Windows that mix slots holding samples with slots holding a name alone. *)
(***************************************************************************)
PackDatagrams == {Seed_x6, Seed_t250_t300, Seed_a1_a2ms, ShortLines(0, 1, NoBar),
                  ShortLines(0, 2, OneCount)}

MaxPackDatagrams == 3

NextPack == Ingress(PackDatagrams, MaxPackDatagrams) \/ Egress

SpecPack == InitUp /\ [][NextPack]_vars

\* the used slots that hold more than their name, in insertion order
Packed == SelectSeq([i \in 1..slots_used |-> i],
                    LAMBDA i : downstream.slots[i].length # downstream.slots[i].name_length)

\* where the segment of the k-th of them starts in the rotated buffer
PackedOffset(k) == SumSeq([j \in 1..(k - 1) |-> downstream.slots[Packed[j]].length])

\* the datagram the rotation has queued
Rotated ==
    ReadRing(downstream'.buffer, downstream.active_buffer_idx,
             downstream'.buffer_length[downstream.active_buffer_idx])

\* C25: a rotation packs, in insertion order, one segment per used slot that
\* accepted a sample and none for a slot whose length equals its name length;
\* the buffer_length it records is the sum of the lengths of the packed slots,
\* each segment is the slot's bytes but for the last, and ends with a newline.
C25_Packing ==
    [][Rotates /\ fault' = "none" =>
          /\ \A i \in 1..slots_used :
                (downstream.slots[i].length # downstream.slots[i].name_length)
                   = (Len(hist.accepted[i]) >= 1)
          /\ downstream'.buffer_length[downstream.active_buffer_idx]
                = PackedOffset(Len(Packed) + 1)
          /\ Len(Rotated) = PackedOffset(Len(Packed) + 1)
          /\ \A k \in 1..Len(Packed) :
                \E sl \in {downstream.slots[Packed[k]]} :
                   /\ SubSeq(Rotated, PackedOffset(k) + 1, PackedOffset(k) + sl.length - 1)
                         = SubSeq(sl.buffer, 1, sl.length - 1)
                   /\ Rotated[PackedOffset(k) + sl.length] = "\n"]_vars

\* a rotation has queued two segments and left out a slot that held its name
\* alone
C25_Witness ==
    /\ fault = "none"
    /\ \E i \in Chunks :
          /\ downstream.buffer_length[i] > 0
          /\ Len(hist.packed[i]) >= 2
          /\ hist.skipped[i] >= 1

(***************************************************************************)
(* An egress socket that has carried MAX_PACKETS_PER_SOCKET datagrams.     *)
(***************************************************************************)
\* the state after MAX_PACKETS_PER_SOCKET windows of one line whose
\* group has no '|', each rotated by the flush timer and sent at once: the
\* ring is drained, both indices have advanced once per window, and the
\* rotations and sends are counted from here
InitWorn ==
    /\ downstream = [NoDownstream EXCEPT
                       !.in_addr_new = [k \in AddrSlots |-> IF k = 0 THEN 1 ELSE 0],
                       !.downstream_host_num = 1,
                       !.downstream_hosts = 1,
                       !.current_downstream_host = 1,
                       !.packets_sent = MAX_PACKETS_PER_SOCKET,
                       !.active_buffer_idx = MAX_PACKETS_PER_SOCKET % DOWNSTREAM_BUF_NUM,
                       !.flush_buffer_idx = MAX_PACKETS_PER_SOCKET % DOWNSTREAM_BUF_NUM]
    /\ heap = <<[addr |-> 1, next |-> NULL, alive |-> TRUE, fd |-> 1,
                 active |-> FALSE, cb |-> "read"]>>
    /\ live = {1}
    /\ fds = {1}
    /\ udp = UdpIdle
    /\ resolver = [pc |-> "sleep", i |-> 0]
    /\ hist = [NoHist EXCEPT !.verdict[1] = "up"]
    /\ fault = "none"

MaxWornDatagrams == 18

NextWorn == Ingress(WrapDatagrams, MaxWornDatagrams) \/ Egress

SpecWorn == InitWorn /\ [][NextWorn]_vars

\* the egress socket is another one after the step
Replaced == downstream'.flush_fd # downstream.flush_fd

\* C24: the egress socket is replaced only by a rotation that arms the
\* watcher with packets_sent above MAX_PACKETS_PER_SOCKET, such a rotation
\* resets packets_sent to 0 and no other step does, and the socket is never
\* replaced while a rotated buffer still awaits its send.
C24_SocketReplaced ==
    [][/\ Replaced =>
             /\ Rotates
             /\ downstream.active_buffer_idx = downstream.flush_buffer_idx
             /\ downstream.packets_sent > MAX_PACKETS_PER_SOCKET
       /\ /\ Rotates
          /\ downstream.active_buffer_idx = downstream.flush_buffer_idx
          /\ downstream.packets_sent > MAX_PACKETS_PER_SOCKET
          => downstream'.packets_sent = 0
       /\ downstream'.packets_sent < downstream.packets_sent => Rotates
       /\ Replaced => hist.unsent = {}]_vars

\* C27: a send step passes sendto the buffer of the earliest rotation not yet
\* sent, so that buffers leave in rotation order and none twice, and a
\* rotation never packs into a buffer that still awaits its send.
C27_RotationOrder ==
    [][/\ Sends /\ Selected # NULL =>
             /\ downstream.flush_buffer_idx \in hist.unsent
             /\ \A i \in hist.unsent :
                   hist.tag[downstream.flush_buffer_idx] <= hist.tag[i]
       /\ Rotates => downstream.active_buffer_idx \notin hist.unsent]_vars

=============================================================================
